---- MODULE Spec2Model ----
(***************************************************************************)
(* Model of the media-recognition fingerprint catalogue:                   *)
(*   database.py       FingerprintDatabase (tables media, fingerprints)    *)
(*   build_database.py the ingest loop (fingerprint_file, add_media,       *)
(*                     add_fingerprints)                                   *)
(*   matcher.py        AudioMatcher.match_clip and _score_matches          *)
(*   fingerprint.py    find_peaks and generate_hashes                      *)
(*   app.py            the upload handler identify                         *)
(*                                                                         *)
(* A SHA-1 hex digest is used by the program for equality and, inside the  *)
(* SQLite index, for ordering only; a digest is represented here by an     *)
(* integer token (database part) or by the hashed triple (hasher part).    *)
(***************************************************************************)
EXTENDS Integers, Sequences, FiniteSets

VARIABLES
    disk,           \* audio file -> what fingerprint_file yields for it
    media,          \* table media: rows in id order
    fingerprints,   \* table fingerprints: rows in rowid order
    next_id,        \* AUTOINCREMENT counter of media.id
    build_pc,       \* position of build_database inside one loop iteration
    build,          \* locals of the loop iteration (audio_file, fingerprints, media_id)
    runs,           \* number of loop iterations started so far
    match_pc,       \* "idle" or "done": a match_clip call has returned
    match,          \* arguments, retrieved rows and return value of that call
    spectrogram,    \* input of find_peaks: [bin][frame] magnitudes
    peaks,          \* array handed to generate_hashes: rows <<freq_idx, time_idx>>
    sorted_peaks,   \* generate_hashes' local `peaks` after the sort of line 112
    hashes,         \* list returned by generate_hashes
    fp_pc,          \* position inside fingerprint_file
    stats,          \* what the last get_statistics call returned
    identify_pc,    \* position inside app.py identify
    upload,         \* the file identify saved under data/uploads exists
    connection,     \* the database connection of identify's matcher is open
    response        \* HTTP status identify answered with (0: none yet)

vars == <<disk, media, fingerprints, next_id, build_pc, build, runs, match_pc, match,
          spectrogram, peaks, sorted_peaks, hashes, fp_pc,
          stats, identify_pc, upload, connection, response>>

db_vars == <<disk, media, fingerprints, next_id, build_pc, build, runs, match_pc, match>>
fp_vars == <<spectrogram, peaks, sorted_peaks, hashes, fp_pc>>
app_vars == <<identify_pc, upload, connection, response>>

----------------------------------------------------------------------------
(* Bounds of the model and input sets *)

MaxFP == 2          \* longest fingerprint list a file yields
MaxIngests == 2     \* loop iterations of build_database over all runs

NumBins == 2        \* frequency bins of a spectrogram
NumFrames == 2      \* frames of a spectrogram
MaxPeaks == 6       \* longest peak array handed to generate_hashes directly
MaxOffset == 12     \* latest anchor frame of the clips scored frame by frame
MaxBuilds == 3      \* runs of build_database before the web server starts

HashTokens == {1, 2}
AnchorTimes == {0, 20}
MinConfidences == {1, 2}
AudioFiles == {[grandparent |-> "movies", stem |-> "a"],
               [grandparent |-> "tv_shows", stem |-> "b"]}
Magnitudes == {0, 10, 11, 12}
PeakFreqs == {1, 2}
PeakTimes == {0, 100, 200, 450}

----------------------------------------------------------------------------
(* Sequence helpers *)

Range(s) == {s[i] : i \in DOMAIN s}

Count(s, x) == Cardinality({i \in DOMAIN s : s[i] = x})

\* The function f itself, with its values computed once: a list or table
\* the program builds once and then reads.
Tabulated(f) == CHOOSE g \in {f} : g = f

RECURSIVE SeqsUpTo(_, _)
SeqsUpTo(S, n) ==
    IF n = 0 THEN {<<>>}
    ELSE LET shorter == SeqsUpTo(S, n - 1)
         IN  shorter \cup {Append(s, x) : s \in {t \in shorter : Len(t) = n - 1}, x \in S}

\* Python dict / defaultdict key order: keys in order of first insertion.
InsertionOrder(s) ==
    LET RECURSIVE Keys(_)
        Keys(n) == IF n = 0 THEN <<>>
                   ELSE IF \E j \in 1..(n - 1) : s[j] = s[n] THEN Keys(n - 1)
                        ELSE Append(Keys(n - 1), s[n])
    IN  Keys(Len(s))

\* argsort of a list of integer keys, stable: the indices of keys in
\* ascending key order, equal keys in input order.  (Python's sorted() is
\* stable; numpy's default argsort is an insertion sort, hence stable, on
\* arrays of at most 16 elements.)
argsort(keys) ==
    LET ks == Tabulated(keys)
        rank == Tabulated([i \in DOMAIN ks |->
                    1 + Cardinality({j \in DOMAIN ks :
                            ks[j] < ks[i] \/ (ks[j] = ks[i] /\ j < i)})])
    IN  Tabulated([r \in 1..Len(ks) |-> CHOOSE i \in DOMAIN ks : rank[i] = r])

\* fingerprint_file as seen by the catalogue: a list of (hash, time_offset)
\* whose anchor times ascend (generate_hashes walks the time-sorted peaks)
\* and whose pairs are distinct (one anchor peak and one target peak give
\* one pair).
FingerprintLists ==
    {s \in SeqsUpTo([hash : HashTokens, time_offset : AnchorTimes], MaxFP) :
        /\ \A i \in 1..(Len(s) - 1) : s[i].time_offset <= s[i + 1].time_offset
        /\ \A i, j \in DOMAIN s : i # j => s[i] # s[j]}

\* Two postings of different hashes at the anchor frames t1 <= t2.
TwoPostings(t1, t2) ==
    <<[hash |-> 1, time_offset |-> t1], [hash |-> 2, time_offset |-> t2]>>

MovieFile == [grandparent |-> "movies", stem |-> "a"]
ShowFile == [grandparent |-> "tv_shows", stem |-> "b"]

\* An audio clip handed to match_clip: whether librosa can load the file,
\* and the fingerprint list its audio yields when it can.
AudioClips ==
    {[readable |-> TRUE, fingerprints |-> q] : q \in FingerprintLists}
        \cup {[readable |-> FALSE, fingerprints |-> <<>>]}

None == <<>>
Some(x) == <<x>>

----------------------------------------------------------------------------
(* build_database.py: parse_filename *)

parse_filename(file_path) ==
    IF file_path.grandparent = "tv_shows" THEN "tv" ELSE "movie"

----------------------------------------------------------------------------
(* database.py: FingerprintDatabase *)

\* add_media: INSERT (fails with IntegrityError when file_path is taken:
\* file_path TEXT NOT NULL UNIQUE), commit, return lastrowid; on
\* IntegrityError SELECT the id of the row holding that file_path.
add_media_no_unique(rows, nid, media_type, file_path) ==
    [media    |-> Append(rows, [id |-> nid, type |-> media_type,
                                file_path |-> file_path, fingerprint_count |-> 0]),
     next_id  |-> nid + 1,
     media_id |-> nid,
     existed  |-> FALSE]

add_media(rows, nid, media_type, file_path) ==
    IF \E i \in DOMAIN rows : rows[i].file_path = file_path
    THEN [media    |-> rows,
          next_id  |-> nid,
          media_id |-> rows[CHOOSE i \in DOMAIN rows : rows[i].file_path = file_path].id,
          existed  |-> TRUE]
    ELSE [media    |-> Append(rows, [id |-> nid, type |-> media_type,
                                     file_path |-> file_path, fingerprint_count |-> 0]),
          next_id  |-> nid + 1,
          media_id |-> nid,
          existed  |-> FALSE]

\* add_fingerprints: executemany INSERT of every (hash, time_offset, media_id),
\* UPDATE media SET fingerprint_count = len(fingerprints) WHERE id = media_id,
\* commit.
add_fingerprints(rows, table, media_id, fps) ==
    [fingerprints |-> table \o [i \in 1..Len(fps) |->
                                   [hash |-> fps[i].hash,
                                    time_offset |-> fps[i].time_offset,
                                    media_id |-> media_id]],
     media |-> [i \in DOMAIN rows |->
                   IF rows[i].id = media_id
                   THEN [rows[i] EXCEPT !.fingerprint_count = Len(fps)]
                   ELSE rows[i]]]

\* The rows add_fingerprints has written on the writer's connection while
\* its transaction is open: lines 109-123 have run, the commit of line 125
\* has not.
open_transaction(pc, media_id, fps) ==
    IF pc = "inserted"
    THEN [i \in 1..Len(fps) |-> [hash |-> fps[i].hash,
                                 time_offset |-> fps[i].time_offset,
                                 media_id |-> media_id]]
    ELSE <<>>

\* Table fingerprints as another connection reads it while the writer
\* holds the uncommitted rows txn: sqlite3 opens a transaction before the
\* first INSERT and nothing of it is visible until conn.commit().
read_first_uncommitted(table, txn) ==
    IF txn = <<>> THEN table ELSE Append(table, txn[1])

read_committed(table, txn) == table

\* The SELECT of search_fingerprints has no ORDER BY.  SQLite answers it
\* either by scanning the table (rowid order) or through idx_hash (hash
\* order, rowid order within one hash).
ScanPlans == {"table", "idx_hash"}

search_fingerprints(table, query_hashes, plan) ==
    LET hit == [i \in DOMAIN table |-> table[i].hash \in Range(query_hashes)]
        RECURSIVE Scan(_)
        Scan(n) == IF n = 0 THEN <<>>
                   ELSE IF hit[n] THEN Append(Scan(n - 1), table[n])
                        ELSE Scan(n - 1)
        by_rowid == Scan(Len(table))
        order == argsort([i \in DOMAIN by_rowid |-> by_rowid[i].hash])
    IN  IF plan = "table" THEN by_rowid
        ELSE Tabulated([k \in DOMAIN by_rowid |-> by_rowid[order[k]]])

get_media_info(rows, media_id) ==
    rows[CHOOSE i \in DOMAIN rows : rows[i].id = media_id]

\* by_type.get(key, 0) over SELECT type, COUNT(*) FROM media GROUP BY type.
by_type(rows, key) == Cardinality({i \in DOMAIN rows : rows[i].type = key})

\* get_statistics reading the TV count under the key 'episode'.
get_statistics_episode_key(rows, table) ==
    [total_media |-> Len(rows),
     total_fingerprints |-> Len(table),
     movies |-> by_type(rows, "movie"),
     tv_shows |-> by_type(rows, "episode")]

get_statistics(rows, table) ==
    [total_media |-> Len(rows),
     total_fingerprints |-> Len(table),
     movies |-> by_type(rows, "movie"),
     tv_shows |-> by_type(rows, "tv")]

----------------------------------------------------------------------------
(* matcher.py: AudioMatcher *)

alignment_bucket == 10

\* Python 3 round(): to the nearest integer, a half to the even neighbour.
\* delta / 10 is exact in binary floating point whenever it is a half.
py_round_div(delta, d) ==
    LET q == delta \div d
        r == delta % d
    IN  IF 2 * r < d THEN q
        ELSE IF 2 * r > d THEN q + 1
        ELSE IF q % 2 = 0 THEN q ELSE q + 1

delta_bucket(delta) == py_round_div(delta, alignment_bucket) * alignment_bucket

\* query_dict = {hash_val: time_offset for ...}: the last pair of a hash wins.
query_dict(query_fingerprints) ==
    Tabulated(
    [h \in {query_fingerprints[i].hash : i \in DOMAIN query_fingerprints} |->
        LET last == CHOOSE i \in DOMAIN query_fingerprints :
                        /\ query_fingerprints[i].hash = h
                        /\ \A j \in DOMAIN query_fingerprints :
                              query_fingerprints[j].hash = h => j <= i
        IN  query_fingerprints[last].time_offset])

\* max(d, key=d.get) and max(scores, key=...): the index of the first
\* maximal key in iteration order.
first_max(keys) ==
    LET ks == Tabulated(keys)
    IN  CHOOSE i \in DOMAIN ks :
            /\ \A j \in DOMAIN ks : ks[j] <= ks[i]
            /\ \A j \in 1..(i - 1) : ks[j] < ks[i]

last_min(keys) ==
    LET ks == Tabulated(keys)
    IN  CHOOSE i \in DOMAIN ks :
            /\ \A j \in DOMAIN ks : ks[j] >= ks[i]
            /\ \A j \in (i + 1)..Len(ks) : ks[j] > ks[i]

\* media_matches[media_id] with the subtraction the other way round.
time_deltas_swapped(db_matches, qd, media_id) ==
    LET RECURSIVE Deltas(_)
        Deltas(n) ==
            IF n = 0 THEN <<>>
            ELSE IF db_matches[n].media_id = media_id /\ db_matches[n].hash \in DOMAIN qd
                 THEN Append(Deltas(n - 1), qd[db_matches[n].hash] - db_matches[n].time_offset)
                 ELSE Deltas(n - 1)
    IN  Deltas(Len(db_matches))

\* media_matches[media_id]: the time deltas of the rows of one media, in row order.
time_deltas_of(db_matches, qd, media_id) ==
    LET RECURSIVE Deltas(_)
        Deltas(n) ==
            IF n = 0 THEN <<>>
            ELSE IF db_matches[n].media_id = media_id /\ db_matches[n].hash \in DOMAIN qd
                 THEN Append(Deltas(n - 1), db_matches[n].time_offset - qd[db_matches[n].hash])
                 ELSE Deltas(n - 1)
    IN  Deltas(Len(db_matches))

score_of(media_id, time_deltas) ==
    LET buckets == Tabulated([i \in DOMAIN time_deltas |-> delta_bucket(time_deltas[i])])
        keys == InsertionOrder(buckets)
        best_delta == keys[first_max([k \in DOMAIN keys |-> Count(buckets, keys[k])])]
    IN  [media_id |-> media_id,
         score |-> Count(buckets, best_delta),
         time_offset |-> best_delta,
         total_deltas |-> Len(time_deltas)]

_score_matches(query_fingerprints, db_matches) ==
    LET qd == query_dict(query_fingerprints)
        used == [i \in DOMAIN db_matches |-> db_matches[i].hash \in DOMAIN qd]
        RECURSIVE Ids(_)
        Ids(n) == IF n = 0 THEN <<>>
                  ELSE IF used[n] THEN Append(Ids(n - 1), db_matches[n].media_id)
                       ELSE Ids(n - 1)
        media_ids == InsertionOrder(Ids(Len(db_matches)))
        scores == Tabulated([k \in DOMAIN media_ids |->
                      score_of(media_ids[k], time_deltas_of(db_matches, qd, media_ids[k]))])
        order == argsort([k \in DOMAIN scores |-> 0 - scores[k].score])
    IN  Tabulated([k \in DOMAIN scores |-> scores[order[k]]])

best_match_lowest(scores) == scores[last_min([k \in DOMAIN scores |-> scores[k].score])]

best_match_of(scores) == scores[first_max([k \in DOMAIN scores |-> scores[k].score])]

\* fingerprint_file as match_clip calls it: load_audio (librosa.load) raises
\* on a file it cannot decode, and nothing between it and match_clip's
\* caller catches the exception.
fingerprint_file(audio) ==
    IF audio.readable THEN [raised |-> FALSE, fingerprints |-> audio.fingerprints]
    ELSE [raised |-> TRUE, fingerprints |-> <<>>]

\* match_clip from line 40 on, query_fingerprints being what fingerprint_file
\* returned; matches is the local of that name.
match_fingerprints(rows, table, query_fingerprints, min_confidence, plan) ==
    LET query_hashes == Tabulated([i \in DOMAIN query_fingerprints |->
                                      query_fingerprints[i].hash])
        matches == search_fingerprints(table, query_hashes, plan)
        scores == _score_matches(query_fingerprints, matches)
        best_match == best_match_of(scores)
        media_info == get_media_info(rows, best_match.media_id)
    IN  IF query_fingerprints = <<>> THEN [matches |-> <<>>, result |-> None]
        ELSE IF matches = <<>> THEN [matches |-> matches, result |-> None]
        ELSE IF scores = <<>> THEN [matches |-> matches, result |-> None]
        ELSE IF best_match.score < min_confidence THEN [matches |-> matches, result |-> None]
        ELSE [matches |-> matches,
              result |-> Some([media_id |-> best_match.media_id,
                               type |-> media_info.type,
                               confidence |-> best_match.score,
                               time_offset |-> best_match.time_offset,
                               total_matches |-> Len(matches)])]

\* match_clip: `raised` when the call ends by an exception, else `result`
\* is the returned dictionary or None.
match_clip(rows, table, audio, min_confidence, plan) ==
    LET fp == fingerprint_file(audio)
        r == match_fingerprints(rows, table, fp.fingerprints, min_confidence, plan)
    IN  IF fp.raised
        THEN [query_fingerprints |-> <<>>, matches |-> <<>>, result |-> None,
              raised |-> TRUE]
        ELSE [query_fingerprints |-> fp.fingerprints, matches |-> r.matches,
              result |-> r.result, raised |-> FALSE]

----------------------------------------------------------------------------
(* fingerprint.py: AudioFingerprinter *)

min_amplitude == 10
peak_neighborhood_size == 20
fan_value == 5
time_window == 200

Cells == (0..(NumBins - 1)) \X (0..(NumFrames - 1))

Abs(x) == IF x < 0 THEN 0 - x ELSE x

Max(S) == CHOOSE x \in S : \A y \in S : y <= x

\* iterate_structure(generate_binary_structure(2, 1), 20): the 4-connected
\* cross dilated to a diamond of radius 20, as offsets from its centre.
neighborhood ==
    {o \in (0 - peak_neighborhood_size..peak_neighborhood_size)
             \X (0 - peak_neighborhood_size..peak_neighborhood_size) :
        Abs(o[1]) + Abs(o[2]) <= peak_neighborhood_size}

\* Boundary mode 'reflect' (d c b a | a b c d | d c b a) of an axis of length n.
reflect(i, n) ==
    LET m == i % (2 * n)
    IN  IF m < n THEN m ELSE 2 * n - 1 - m

\* The cells a footprint centred on c reads under mode 'reflect'.
reflect_footprint ==
    Tabulated([c \in Cells |->
        {<<reflect(c[1] + o[1], NumBins), reflect(c[2] + o[2], NumFrames)>> :
            o \in neighborhood}])

\* The cells a footprint centred on c reads under mode 'constant'; outside
\* the array it reads cval = 0.
constant_footprint ==
    Tabulated([c \in Cells |->
        {x \in Cells : <<x[1] - c[1], x[2] - c[2]>> \in neighborhood}])

reads_outside ==
    Tabulated([c \in Cells |->
        \E o \in neighborhood : <<c[1] + o[1], c[2] + o[2]>> \notin Cells])

\* maximum_filter(spectrogram, footprint=neighborhood) at cell c.
maximum_filter_reflect(M, c) == Max({M[x] : x \in reflect_footprint[c]})

\* maximum_filter(background, footprint=neighborhood, mode='constant') at c.
maximum_filter_constant(M, c) ==
    Max({M[x] : x \in constant_footprint[c]} \cup (IF reads_outside[c] THEN {0} ELSE {}))

\* find_peaks: the rows <<freq_idx, time_idx>> of np.where(detected_peaks).T
\* (row-major: by bin, then by frame) whose amplitude exceeds min_amplitude.
find_peaks(M) ==
    LET local_max == [c \in Cells |-> maximum_filter_reflect(M, c) = M[c]]
        background == [c \in Cells |-> IF M[c] = 0 THEN 1 ELSE 0]
        eroded_background == [c \in Cells |-> maximum_filter_constant(background, c) = 1]
        detected_peaks == [c \in Cells |-> local_max[c] # eroded_background[c]]
        cell(k) == <<k \div NumFrames, k % NumFrames>>
        RECURSIVE Where(_)
        Where(k) == IF k < 0 THEN <<>>
                    ELSE IF detected_peaks[cell(k)] /\ M[cell(k)] > min_amplitude
                         THEN Append(Where(k - 1), cell(k))
                         ELSE Where(k - 1)
    IN  Where(NumBins * NumFrames - 1)

\* generate_hashes line 112: peaks[peaks[:, 1].argsort()].
sort_by_time_skipped(pk) == pk

sort_by_time(pk) ==
    LET order == argsort([i \in DOMAIN pk |-> pk[i][2]])
    IN  [k \in DOMAIN pk |-> pk[order[k]]]

\* sha1(f"{freq1}|{freq2}|{time_delta}").hexdigest(): the digest stands for
\* the triple it is computed from.
hash_value(freq1, freq2, time_delta) == <<freq1, freq2, time_delta>>

\* generate_hashes lines 116-133 over the sorted array sp (1-based here:
\* anchor i pairs with j = i+1 .. min(i + fan_value, len) - 1 of the
\* 0-based loop, and stops at the first pair wider than time_window).
RECURSIVE pair_targets(_, _, _)
pair_targets(sp, i, j) ==
    LET last == IF i + fan_value - 1 < Len(sp) THEN i + fan_value - 1 ELSE Len(sp)
        time_delta == sp[j][2] - sp[i][2]
    IN  IF j > last THEN <<>>
        ELSE IF time_delta > time_window THEN <<>>
        ELSE <<[hash |-> hash_value(sp[i][1], sp[j][1], time_delta),
                time_offset |-> sp[i][2]]>> \o pair_targets(sp, i, j + 1)

RECURSIVE pair_anchors(_, _)
pair_anchors(sp, i) ==
    IF i > Len(sp) THEN <<>>
    ELSE pair_targets(sp, i, i + 1) \o pair_anchors(sp, i + 1)

generate_hashes(pk) == pair_anchors(sort_by_time(pk), 1)

----------------------------------------------------------------------------
(* State machine of the catalogue: one writer (build_database) and queries *)

NoBuild == [audio_file |-> <<>>, fingerprints |-> <<>>, media_id |-> 0, existed |-> FALSE]
NoMatch == [readable |-> TRUE, query_fingerprints |-> <<>>, min_confidence |-> 0,
            matches |-> <<>>, result |-> None, raised |-> FALSE]

InitDb ==
    /\ disk \in [AudioFiles -> FingerprintLists]
    /\ media = <<>>
    /\ fingerprints = <<>>
    /\ next_id = 1
    /\ build_pc = "idle"
    /\ build = NoBuild
    /\ runs = 0
    /\ match_pc = "idle"
    /\ match = NoMatch

InitFpIdle ==
    /\ spectrogram = <<>>
    /\ peaks = <<>>
    /\ sorted_peaks = <<>>
    /\ hashes = <<>>
    /\ fp_pc = "off"

NoStats == [total_media |-> 0, total_fingerprints |-> 0, movies |-> 0, tv_shows |-> 0]

\* No get_statistics call and no upload request so far.
InitAppIdle ==
    /\ stats = NoStats
    /\ identify_pc = "idle"
    /\ upload = FALSE
    /\ connection = FALSE
    /\ response = 0

\* build_database lines 96-106: fingerprint_file, then add_media (which commits).
AddMedia(audio_file) ==
    /\ build_pc = "idle"
    /\ runs < MaxIngests
    /\ LET r == add_media(media, next_id, parse_filename(audio_file), audio_file)
       IN  /\ media' = r.media
           /\ next_id' = r.next_id
           /\ build' = [audio_file |-> audio_file, fingerprints |-> disk[audio_file],
                        media_id |-> r.media_id, existed |-> r.existed]
    /\ build_pc' = "added"
    /\ runs' = runs + 1
    /\ UNCHANGED <<disk, fingerprints, match_pc, match>>
    /\ UNCHANGED fp_vars
    /\ UNCHANGED <<stats, app_vars>>

\* build_database line 108: add_fingerprints (one transaction, one commit).
AddFingerprints ==
    /\ build_pc = "added"
    /\ LET r == add_fingerprints(media, fingerprints, build.media_id, build.fingerprints)
       IN  /\ fingerprints' = r.fingerprints
           /\ media' = r.media
    /\ build_pc' = "idle"
    /\ UNCHANGED <<disk, next_id, build, runs, match_pc, match>>
    /\ UNCHANGED fp_vars
    /\ UNCHANGED <<stats, app_vars>>

\* AudioMatcher.match_clip on its own connection, at any point of the build.
MatchClip(audio, min_confidence, plan) ==
    /\ match_pc = "idle"
    /\ LET r == match_clip(media, fingerprints, audio, min_confidence, plan)
       IN  match' = [readable |-> audio.readable,
                     query_fingerprints |-> r.query_fingerprints,
                     min_confidence |-> min_confidence,
                     matches |-> r.matches,
                     result |-> r.result,
                     raised |-> r.raised]
    /\ match_pc' = "done"
    /\ UNCHANGED <<disk, media, fingerprints, next_id, build_pc, build, runs>>
    /\ UNCHANGED fp_vars
    /\ UNCHANGED <<stats, app_vars>>

\* The caller is finished with the result (matcher.close()).
CloseMatcher ==
    /\ match_pc = "done"
    /\ match_pc' = "idle"
    /\ match' = NoMatch
    /\ UNCHANGED <<disk, media, fingerprints, next_id, build_pc, build, runs>>
    /\ UNCHANGED fp_vars
    /\ UNCHANGED <<stats, app_vars>>

\* add_fingerprints lines 109-123 on the writer's connection: executemany
\* and the UPDATE of fingerprint_count, not yet committed.
ExecuteMany ==
    /\ build_pc = "added"
    /\ build_pc' = "inserted"
    /\ UNCHANGED <<disk, media, fingerprints, next_id, build, runs, match_pc, match>>
    /\ UNCHANGED fp_vars
    /\ UNCHANGED <<stats, app_vars>>

\* add_fingerprints line 125: conn.commit() publishes the batch and the count.
Commit ==
    /\ build_pc = "inserted"
    /\ LET r == add_fingerprints(media, fingerprints, build.media_id, build.fingerprints)
       IN  /\ fingerprints' = r.fingerprints
           /\ media' = r.media
    /\ build_pc' = "idle"
    /\ UNCHANGED <<disk, next_id, build, runs, match_pc, match>>
    /\ UNCHANGED fp_vars
    /\ UNCHANGED <<stats, app_vars>>

\* match_clip on the matcher's own connection (matcher.py line 18) at any
\* point of the writer's iteration; writer_pc records that point.
QueryDuringIngest(audio, min_confidence, plan) ==
    /\ match_pc = "idle"
    /\ LET txn == open_transaction(build_pc, build.media_id, build.fingerprints)
           r == match_clip(media, read_committed(fingerprints, txn), audio,
                           min_confidence, plan)
       IN  match' = [readable |-> audio.readable,
                     query_fingerprints |-> r.query_fingerprints,
                     min_confidence |-> min_confidence,
                     matches |-> r.matches,
                     result |-> r.result,
                     raised |-> r.raised,
                     writer_pc |-> build_pc]
    /\ match_pc' = "done"
    /\ UNCHANGED <<disk, media, fingerprints, next_id, build_pc, build, runs>>
    /\ UNCHANGED fp_vars
    /\ UNCHANGED <<stats, app_vars>>

Init == InitDb /\ InitFpIdle /\ InitAppIdle

Next ==
    \/ \E f \in AudioFiles : AddMedia(f)
    \/ AddFingerprints
    \/ \E a \in AudioClips, c \in MinConfidences, p \in ScanPlans : MatchClip(a, c, p)
    \/ CloseMatcher

Spec == Init /\ [][Next]_vars

\* The ingest with add_fingerprints split at its commit, and queries on a
\* second connection in between; the clips queried are the audio of the
\* files being catalogued.
NextIngest ==
    \/ \E f \in AudioFiles : AddMedia(f)
    \/ ExecuteMany
    \/ Commit
    \/ \E f \in AudioFiles, p \in ScanPlans :
            QueryDuringIngest([readable |-> TRUE, fingerprints |-> disk[f]], 1, p)
    \/ CloseMatcher

SpecIngest == Init /\ [][NextIngest]_vars

----------------------------------------------------------------------------
(* State machine of app.py: one request to /identify over a built catalogue *)

identify_min_confidence == 5

\* One iteration of build_database's loop on the tables db for file f whose
\* fingerprint list is fps.
ingest_file(db, f, fps) ==
    LET m == add_media(db.media, db.next_id, parse_filename(f), f)
        r == add_fingerprints(m.media, db.fingerprints, m.media_id, fps)
    IN  [media |-> r.media, fingerprints |-> r.fingerprints, next_id |-> m.next_id]

\* The tables after k runs of build_database over the two files of d.
RECURSIVE build_database(_, _)
build_database(d, k) ==
    IF k = 0 THEN [media |-> <<>>, fingerprints |-> <<>>, next_id |-> 1]
    ELSE ingest_file(ingest_file(build_database(d, k - 1), MovieFile, d[MovieFile]),
                     ShowFile, d[ShowFile])

InitIdentify ==
    /\ disk \in [AudioFiles -> FingerprintLists]
    /\ \E k \in 1..MaxBuilds :
          LET db == build_database(disk, k)
          IN  /\ media = db.media
              /\ fingerprints = db.fingerprints
              /\ next_id = db.next_id
              /\ runs = 2 * k
    /\ build_pc = "idle"
    /\ build = NoBuild
    /\ match_pc = "idle"
    /\ match = NoMatch
    /\ InitFpIdle
    /\ InitAppIdle

\* identify lines 33-44: no file, empty filename or extension not allowed.
IdentifyReject ==
    /\ identify_pc = "idle"
    /\ identify_pc' = "responded"
    /\ response' = 400
    /\ UNCHANGED <<upload, connection, stats>>
    /\ UNCHANGED db_vars
    /\ UNCHANGED fp_vars

\* identify lines 48-52: file.save(filepath).
IdentifySave ==
    /\ identify_pc = "idle"
    /\ identify_pc' = "saved"
    /\ upload' = TRUE
    /\ UNCHANGED <<connection, response, stats>>
    /\ UNCHANGED db_vars
    /\ UNCHANGED fp_vars

\* identify line 55: matcher = AudioMatcher() connects to the database.
IdentifyOpenMatcher ==
    /\ identify_pc = "saved"
    /\ identify_pc' = "opened"
    /\ connection' = TRUE
    /\ UNCHANGED <<upload, response, stats>>
    /\ UNCHANGED db_vars
    /\ UNCHANGED fp_vars

\* identify line 58: matcher.match_clip(filepath, min_confidence=5) on the
\* uploaded audio; an exception goes to the handler of lines 84-85, which
\* answers 500.
IdentifyMatchClip(audio, plan) ==
    /\ identify_pc = "opened"
    /\ LET r == match_clip(media, fingerprints, audio, identify_min_confidence, plan)
       IN  /\ match' = [readable |-> audio.readable,
                         query_fingerprints |-> r.query_fingerprints,
                         min_confidence |-> identify_min_confidence,
                         matches |-> r.matches,
                         result |-> r.result,
                         raised |-> r.raised]
           /\ identify_pc' = IF r.raised THEN "responded" ELSE "matched"
           /\ response' = IF r.raised THEN 500 ELSE response
    /\ match_pc' = "done"
    /\ UNCHANGED <<upload, connection, stats>>
    /\ UNCHANGED <<disk, media, fingerprints, next_id, build_pc, build, runs>>
    /\ UNCHANGED fp_vars

\* identify line 60: matcher.close().
IdentifyCloseMatcher ==
    /\ identify_pc = "matched"
    /\ identify_pc' = "closed"
    /\ connection' = FALSE
    /\ UNCHANGED <<upload, response, stats>>
    /\ UNCHANGED db_vars
    /\ UNCHANGED fp_vars

\* identify line 63: os.remove(filepath).
IdentifyRemoveUpload ==
    /\ identify_pc = "closed"
    /\ identify_pc' = "removed"
    /\ upload' = FALSE
    /\ UNCHANGED <<connection, response, stats>>
    /\ UNCHANGED db_vars
    /\ UNCHANGED fp_vars

\* identify lines 66-82: the JSON answer, success true or false.
IdentifyRespond ==
    /\ identify_pc = "removed"
    /\ identify_pc' = "responded"
    /\ response' = 200
    /\ UNCHANGED <<upload, connection, stats>>
    /\ UNCHANGED db_vars
    /\ UNCHANGED fp_vars

NextIdentify ==
    \/ IdentifyReject
    \/ IdentifySave
    \/ IdentifyOpenMatcher
    \/ \E a \in AudioClips, p \in ScanPlans : IdentifyMatchClip(a, p)
    \/ IdentifyCloseMatcher
    \/ IdentifyRemoveUpload
    \/ IdentifyRespond

SpecIdentify == InitIdentify /\ [][NextIdentify]_vars

----------------------------------------------------------------------------
(* State machine of the kind labels: add_media called with any label *)

\* The labels of the data model ("movie", "episode") and the label
\* build_database writes ("tv").
Kinds == {"movie", "episode", "tv"}

InitKinds ==
    /\ disk \in [AudioFiles -> {TwoPostings(0, 20), <<[hash |-> 1, time_offset |-> 0]>>}]
    /\ media = <<>>
    /\ fingerprints = <<>>
    /\ next_id = 1
    /\ build_pc = "idle"
    /\ build = NoBuild
    /\ runs = 0
    /\ match_pc = "idle"
    /\ match = NoMatch
    /\ InitFpIdle
    /\ InitAppIdle

\* add_media called with media_type given by the caller.
AddMediaAs(media_type, audio_file) ==
    /\ build_pc = "idle"
    /\ runs < MaxIngests
    /\ LET r == add_media(media, next_id, media_type, audio_file)
       IN  /\ media' = r.media
           /\ next_id' = r.next_id
           /\ build' = [audio_file |-> audio_file, fingerprints |-> disk[audio_file],
                        media_id |-> r.media_id, existed |-> r.existed]
    /\ build_pc' = "added"
    /\ runs' = runs + 1
    /\ UNCHANGED <<disk, fingerprints, match_pc, match>>
    /\ UNCHANGED fp_vars
    /\ UNCHANGED <<stats, app_vars>>

\* get_statistics (build_database line 121 calls it after the loop).
GetStatistics ==
    /\ build_pc = "idle"
    /\ stats' = get_statistics(media, fingerprints)
    /\ UNCHANGED db_vars
    /\ UNCHANGED fp_vars
    /\ UNCHANGED app_vars

NextKinds ==
    \/ \E k \in Kinds, f \in AudioFiles : AddMediaAs(k, f)
    \/ AddFingerprints
    \/ GetStatistics

SpecKinds == InitKinds /\ [][NextKinds]_vars

----------------------------------------------------------------------------
(* State machine of the scoring: one catalogued work, clips frame by frame *)

\* build_database has run once over a catalogue of one file with two
\* postings, at any anchor frames up to MaxOffset.
InitScore ==
    /\ \E t1 \in 0..MaxOffset, t2 \in 0..MaxOffset :
          /\ t1 <= t2
          /\ disk = [f \in AudioFiles |-> IF f = MovieFile THEN TwoPostings(t1, t2) ELSE <<>>]
    /\ LET m == add_media(<<>>, 1, parse_filename(MovieFile), MovieFile)
           f == add_fingerprints(m.media, <<>>, m.media_id, disk[MovieFile])
       IN  /\ media = f.media
           /\ fingerprints = f.fingerprints
           /\ next_id = m.next_id
           /\ build = [audio_file |-> MovieFile, fingerprints |-> disk[MovieFile],
                       media_id |-> m.media_id, existed |-> m.existed]
    /\ build_pc = "idle"
    /\ runs = 1
    /\ match_pc = "idle"
    /\ match = NoMatch
    /\ InitFpIdle
    /\ InitAppIdle

\* match_clip on a clip with the same two hashes at any anchor frames.
NextScore ==
    \E q1 \in 0..MaxOffset, q2 \in 0..MaxOffset, p \in ScanPlans :
        /\ q1 <= q2
        /\ MatchClip([readable |-> TRUE, fingerprints |-> TwoPostings(q1, q2)], 1, p)

SpecScore == InitScore /\ [][NextScore]_vars

----------------------------------------------------------------------------
(* State machine of fingerprint_file: spectrogram, find_peaks, generate_hashes *)

DbOff ==
    /\ disk = [f \in AudioFiles |-> <<>>]
    /\ media = <<>>
    /\ fingerprints = <<>>
    /\ next_id = 1
    /\ build_pc = "idle"
    /\ build = NoBuild
    /\ runs = 0
    /\ match_pc = "idle"
    /\ match = NoMatch
    /\ InitAppIdle

\* fingerprint_file lines 150-153 have produced a spectrogram.
InitPeaks ==
    /\ DbOff
    /\ spectrogram \in [Cells -> Magnitudes]
    /\ peaks = <<>>
    /\ sorted_peaks = <<>>
    /\ hashes = <<>>
    /\ fp_pc = "spectrogram"

\* generate_hashes called on an array of peaks (distinct cells, any order).
InitHasher ==
    /\ DbOff
    /\ spectrogram = <<>>
    /\ peaks \in {pk \in SeqsUpTo(PeakFreqs \X PeakTimes, MaxPeaks) :
                    \A i, j \in DOMAIN pk : i # j => pk[i] # pk[j]}
    /\ sorted_peaks = <<>>
    /\ hashes = <<>>
    /\ fp_pc = "peaks"

\* fingerprint_file line 156.
FindPeaks ==
    /\ fp_pc = "spectrogram"
    /\ peaks' = find_peaks(spectrogram)
    /\ fp_pc' = "peaks"
    /\ UNCHANGED <<spectrogram, sorted_peaks, hashes>>
    /\ UNCHANGED db_vars
    /\ UNCHANGED <<stats, app_vars>>

\* fingerprint_file line 159.
GenerateHashes ==
    /\ fp_pc = "peaks"
    /\ sorted_peaks' = sort_by_time(peaks)
    /\ hashes' = generate_hashes(peaks)
    /\ fp_pc' = "hashed"
    /\ UNCHANGED <<spectrogram, peaks>>
    /\ UNCHANGED db_vars
    /\ UNCHANGED <<stats, app_vars>>

NextPeaks == FindPeaks \/ GenerateHashes

SpecPeaks == InitPeaks /\ [][NextPeaks]_vars

SpecHasher == InitHasher /\ [][GenerateHashes]_vars

----------------------------------------------------------------------------
(* Properties of the catalogue (database.py, build_database.py) *)

PostingRowsOf(media_id) == {r \in DOMAIN fingerprints : fingerprints[r].media_id = media_id}

\* C1: ingesting a source_path that already has a work leaves the posting
\* rows as they were: the add_fingerprints step of a repeated ingest does
\* not change table fingerprints.
C1_ReingestLeavesPostings ==
    [][(build_pc = "added" /\ build.existed /\ build_pc' = "idle")
          => fingerprints' = fingerprints]_vars

\* C2: whenever every started ingest has completed, each work's stored
\* fingerprint_count equals the number of posting rows carrying its id.
C2_PostingCountMatchesRows ==
    build_pc = "idle" =>
        \A i \in DOMAIN media :
            media[i].fingerprint_count = Cardinality(PostingRowsOf(media[i].id))

\* C3: add_media is idempotent per source_path: no two works share a
\* file_path, a work keeps its id and file_path for ever, every add_media
\* returns the id of the work holding the path, and a call for a path that
\* already has a work leaves table media unchanged (so it returns the id
\* the first call returned).
C3_AddMediaIdempotent ==
    /\ [](\A i, j \in DOMAIN media : i # j => media[i].file_path # media[j].file_path)
    /\ [][/\ \A i \in DOMAIN media :
                /\ i \in DOMAIN media'
                /\ media'[i].id = media[i].id
                /\ media'[i].file_path = media[i].file_path
          /\ (build_pc = "idle" /\ build_pc' = "added") =>
                /\ \E i \in DOMAIN media' :
                      /\ media'[i].file_path = build'.audio_file
                      /\ media'[i].id = build'.media_id
                /\ (\E i \in DOMAIN media : media[i].file_path = build'.audio_file)
                      => media' = media]_vars

\* C3 witness: a second add_media of a path has run and found the work.
C3_Witness ==
    /\ build_pc = "added"
    /\ build.existed
    /\ build.fingerprints # <<>>

\* How many of the rows the query retrieved are posting p of work media_id.
ObservedCopies(media_id, p) ==
    Cardinality({r \in DOMAIN match.matches :
                    /\ match.matches[r].media_id = media_id
                    /\ match.matches[r].hash = p.hash
                    /\ match.matches[r].time_offset = p.time_offset})

\* The postings of a file that a query for the hashes of q has to retrieve.
AskedPostings(file_path, q) ==
    {p \in Range(disk[file_path]) : \E j \in DOMAIN q : q[j].hash = p.hash}

\* C11: ingest visibility: a query running at any point of the writer's
\* ingest observes, for every work, whole ingests only: each posting of the
\* work that the query asks for is retrieved the same number of times (none
\* of an ingest or all of it, never a strict non-empty part), and every
\* retrieved row is a posting of a catalogued work.
C11_IngestVisibility ==
    match_pc = "done" =>
        /\ \A i \in DOMAIN media :
              \E k \in 0..MaxIngests :
                  \A p \in AskedPostings(media[i].file_path, match.query_fingerprints) :
                      ObservedCopies(media[i].id, p) = k
        /\ \A r \in DOMAIN match.matches :
              \E i \in DOMAIN media :
                  /\ media[i].id = match.matches[r].media_id
                  /\ \E p \in Range(disk[media[i].file_path]) :
                        /\ p.hash = match.matches[r].hash
                        /\ p.time_offset = match.matches[r].time_offset

\* C11 witness: a query ran while the writer's transaction held the two
\* postings of a work uncommitted; it asked for both, retrieved neither,
\* and retrieved both postings of a work ingested before.
C11_Witness ==
    /\ match_pc = "done"
    /\ match.writer_pc = "inserted"
    /\ build_pc = "inserted"
    /\ Len(build.fingerprints) = 2
    /\ ~build.existed
    /\ Cardinality(AskedPostings(build.audio_file, match.query_fingerprints)) = 2
    /\ \A p \in Range(build.fingerprints) : ObservedCopies(build.media_id, p) = 0
    /\ \E i \in DOMAIN media :
          /\ media[i].id # build.media_id
          /\ Cardinality(AskedPostings(media[i].file_path, match.query_fingerprints)) = 2
          /\ \A p \in Range(disk[media[i].file_path]) : ObservedCopies(media[i].id, p) = 1

WorksOfKind(kinds) == {i \in DOMAIN media : media[i].type \in kinds}

\* C15 as stated: Statistics counts every work as a movie or an episode,
\* a work stored as "tv" and one stored as "episode" alike: movies plus
\* episodes is the total number of works, after any ingests with kind in
\* {movie, episode, tv}.
C15_KindLabelsOnRead ==
    stats.movies + stats.tv_shows = stats.total_media

\* C15 amended: get_statistics knows the labels "movie" and "tv" only: each
\* call returns the number of works as total_media, the works stored as
\* "movie" as movies and the works stored as "tv" as tv_shows, so movies
\* plus tv_shows is the total less the works stored under another label
\* (such as "episode"), and equals the total when every ingest had kind
\* "movie" or "tv".
C15_StatisticsCountMovieAndTv ==
    [][stats' # stats =>
          /\ stats'.total_media = Len(media)
          /\ stats'.total_fingerprints = Len(fingerprints)
          /\ stats'.movies = Cardinality(WorksOfKind({"movie"}))
          /\ stats'.tv_shows = Cardinality(WorksOfKind({"tv"}))
          /\ stats'.movies + stats'.tv_shows
                = stats'.total_media - Cardinality(WorksOfKind(Kinds \ {"movie", "tv"}))
          /\ WorksOfKind({"movie", "tv"}) = DOMAIN media
                => stats'.movies + stats'.tv_shows = stats'.total_media]_vars

\* C15 witness: statistics were read over a catalogue holding a work stored
\* as "tv" and a work stored as "episode"; the first is counted, the
\* second is in neither count.
C15_Witness ==
    /\ stats.total_media = 2
    /\ Len(media) = 2
    /\ WorksOfKind({"tv"}) # {}
    /\ WorksOfKind({"episode"}) # {}
    /\ stats.tv_shows = 1
    /\ stats.movies = 0

----------------------------------------------------------------------------
(* Properties of the matcher (matcher.py) *)

\* The score of a work as the matcher defines it, counted from the rows the
\* query retrieved: the largest number of the work's rows whose alignment
\* offset falls into one bucket.
CandidateWorks == {match.matches[i].media_id : i \in DOMAIN match.matches}

\* The bucket of the alignment offset d - q of each retrieved row.
BucketOfRow ==
    LET qd == query_dict(match.query_fingerprints)
    IN  Tabulated([i \in DOMAIN match.matches |->
            delta_bucket(match.matches[i].time_offset - qd[match.matches[i].hash])])

ScoreOfWork(w) ==
    LET bucket == BucketOfRow
        mine == {i \in DOMAIN match.matches : match.matches[i].media_id = w}
        counts == {Cardinality({j \in mine : bucket[j] = bucket[i]}) : i \in mine}
    IN  CHOOSE c \in counts : \A d \in counts : d <= c

MaxScore ==
    IF CandidateWorks = {} THEN 0
    ELSE LET all == {ScoreOfWork(w) : w \in CandidateWorks}
         IN  CHOOSE c \in all : \A d \in all : d <= c

Returned == match_pc = "done" /\ match.result # None

\* C4: threshold gate: when the highest per-work score is below
\* min_confidence match_clip returns None; a returned result has a
\* confidence >= min_confidence that equals the highest per-work score.
C4_ThresholdGate ==
    match_pc = "done" =>
        /\ MaxScore < match.min_confidence => match.result = None
        /\ match.result # None =>
              /\ match.result[1].confidence >= match.min_confidence
              /\ match.result[1].confidence = MaxScore

\* C4 witness: a result was returned at min_confidence 2 while another
\* candidate work scored less than the winner.
C4_Witness ==
    /\ Returned
    /\ match.min_confidence = 2
    /\ \E w \in CandidateWorks : ScoreOfWork(w) < MaxScore

\* The postings of a work, in rowid order, as (hash, time_offset) pairs.
PostingsOfWork(media_id) ==
    LET RECURSIVE Take(_)
        Take(n) == IF n = 0 THEN <<>>
                   ELSE IF fingerprints[n].media_id = media_id
                        THEN Append(Take(n - 1), [hash |-> fingerprints[n].hash,
                                                  time_offset |-> fingerprints[n].time_offset])
                        ELSE Take(n - 1)
    IN  Take(Len(fingerprints))

\* The postings of a work whose anchor lies in [s, e], re-timed to start at 0.
SubClipOfWork(media_id, s, e) ==
    LET all == PostingsOfWork(media_id)
        RECURSIVE Cut(_)
        Cut(n) == IF n = 0 THEN <<>>
                  ELSE IF all[n].time_offset >= s /\ all[n].time_offset <= e
                       THEN Append(Cut(n - 1), [hash |-> all[n].hash,
                                                time_offset |-> all[n].time_offset - s])
                       ELSE Cut(n - 1)
    IN  Cut(Len(all))

\* C5: self-identification: when the query's postings are exactly the
\* postings of a catalogued work A and a result is returned (the score
\* reaches min_confidence), the result is A at bucket 0.
C5_SelfIdentification ==
    Returned =>
        \A i \in DOMAIN media :
            match.query_fingerprints = PostingsOfWork(media[i].id) =>
                /\ match.result[1].media_id = media[i].id
                /\ match.result[1].time_offset = 0

\* C6: sub-clip alignment: when the query's postings are the postings of a
\* catalogued work A with anchor in a segment starting at frame s, re-timed
\* by -s, and a result is returned, the result is A with a peak offset
\* within one bucket (10 frames) of s.
C6_SubClipAlignment ==
    Returned =>
        \A i \in DOMAIN media, s \in AnchorTimes, e \in AnchorTimes :
            (s <= e /\ match.query_fingerprints = SubClipOfWork(media[i].id, s, e)) =>
                /\ match.result[1].media_id = media[i].id
                /\ match.result[1].time_offset - s <= alignment_bucket
                /\ s - match.result[1].time_offset <= alignment_bucket

\* C7: tie-breaking: among the works with the maximal score the returned
\* one has the lowest id, in whatever order the rows were retrieved.
C7_TieBreakLowestId ==
    Returned =>
        \A w \in CandidateWorks :
            ScoreOfWork(w) = MaxScore => match.result[1].media_id <= w

\* The rows retrieved for one work, in retrieval order.
RowsOfWork(w) ==
    LET RECURSIVE Take(_)
        Take(n) == IF n = 0 THEN <<>>
                   ELSE IF match.matches[n].media_id = w
                        THEN Append(Take(n - 1), match.matches[n])
                        ELSE Take(n - 1)
    IN  Take(Len(match.matches))

\* The anchor times at which a hash occurs in the query.
QueryAnchors(h) ==
    {match.query_fingerprints[j].time_offset :
        j \in {i \in DOMAIN match.query_fingerprints : match.query_fingerprints[i].hash = h}}

RECURSIVE SumTotalDeltas(_)
SumTotalDeltas(scores) ==
    IF scores = <<>> THEN 0
    ELSE scores[1].total_deltas + SumTotalDeltas(Tail(scores))

\* C13: offset collection: every retrieved row (w, d) contributes exactly
\* one offset d - q to D[w], q being an anchor time of the row's hash in
\* the query and the same q for every row of that hash (one q per hash);
\* the offsets of all works together number the retrieved rows,
\* which is the total_matches of a returned result.
C13_OffsetCollection ==
    (match_pc = "done" /\ ~match.raised) =>
        LET qd == query_dict(match.query_fingerprints)
            scores == _score_matches(match.query_fingerprints, match.matches)
        IN  /\ \A w \in CandidateWorks :
                  LET D == time_deltas_of(match.matches, qd, w)
                      rows == RowsOfWork(w)
                  IN  /\ Len(D) = Len(rows)
                      /\ \A k \in DOMAIN rows :
                            \E q \in QueryAnchors(rows[k].hash) :
                                /\ D[k] = rows[k].time_offset - q
                                /\ q = qd[rows[k].hash]
                      /\ \E k \in DOMAIN scores :
                            scores[k].media_id = w /\ scores[k].total_deltas = Len(D)
            /\ {scores[k].media_id : k \in DOMAIN scores} = CandidateWorks
            /\ SumTotalDeltas(scores) = Len(match.matches)
            /\ match.result # None => match.result[1].total_matches = SumTotalDeltas(scores)

\* C13 witness: a result was returned for a query in which one hash occurs
\* at two anchor times, with rows of two works retrieved, one of them lying
\* before the anchor the query keeps for its hash.
C13_Witness ==
    /\ Returned
    /\ Len(match.query_fingerprints) = 2
    /\ match.query_fingerprints[1].hash = match.query_fingerprints[2].hash
    /\ Cardinality(CandidateWorks) = 2
    /\ Len(match.matches) >= 3
    /\ \E r \in DOMAIN match.matches :
          match.matches[r].time_offset
              < query_dict(match.query_fingerprints)[match.matches[r].hash]

\* The alignment offset d - q of each retrieved row.
OffsetOfRow ==
    LET qd == query_dict(match.query_fingerprints)
    IN  Tabulated([i \in DOMAIN match.matches |->
            match.matches[i].time_offset - qd[match.matches[i].hash]])

\* C14: alignment buckets have width 10 frames: any two rows of a work
\* that _score_matches counts in the same bucket have offsets, positive or
\* negative, that differ by fewer than 10 frames.
C14_BucketWidth ==
    match_pc = "done" =>
        \A i, j \in DOMAIN match.matches :
            (/\ match.matches[i].media_id = match.matches[j].media_id
             /\ BucketOfRow[i] = BucketOfRow[j])
                => Abs(OffsetOfRow[i] - OffsetOfRow[j]) < alignment_bucket

\* C12: query failure semantics: a match_clip call that fails for any of
\* the causes (unreadable audio, no postings from the query, no hash found
\* in the index, best score below min_confidence) returns None; it does
\* not end by raising an error.
C12_QueryFailuresReturnNone ==
    (/\ match_pc = "done"
     /\ \/ ~match.readable
        \/ match.query_fingerprints = <<>>
        \/ match.matches = <<>>
        \/ MaxScore < match.min_confidence)
        => (match.result = None /\ ~match.raised)

----------------------------------------------------------------------------
(* Properties of the upload handler (app.py) *)

\* C16: upload handler cleanup: a request that saved the upload and opened
\* a matcher ends (match found, no match, or match_clip raising) with the
\* matcher's connection closed and the saved file removed.
C16_UploadCleanup ==
    (identify_pc = "responded" /\ response # 400) =>
        (~upload /\ ~connection)

----------------------------------------------------------------------------
(* Properties of the fingerprinter (fingerprint.py) *)

IsTimeSorted(pk) == \A i, j \in DOMAIN pk : i < j => pk[i][2] <= pk[j][2]

\* The anchor/target index pairs the hasher contract names: target j among
\* the next fan_value peaks after anchor i, before the first target whose
\* time delta exceeds time_window.
ContractPairs(sp) ==
    {e \in (DOMAIN sp) \X (DOMAIN sp) :
        /\ e[1] < e[2]
        /\ e[2] <= e[1] + fan_value
        /\ \A k \in (e[1] + 1)..e[2] : sp[k][2] - sp[e[1]][2] <= time_window}

ContractPosting(sp, e) ==
    [hash |-> hash_value(sp[e[1]][1], sp[e[2]][1], sp[e[2]][2] - sp[e[1]][2]),
     time_offset |-> sp[e[1]][2]]

\* C8: hasher fan-out: the postings generate_hashes returns are, with
\* multiplicity, one (H(f1, f2, dt), t1) per anchor p_i and target p_j with
\* j in (i, i + fan_value] ahead of the first target with dt > time_window,
\* and no others.
C8_HasherFanOut ==
    fp_pc = "hashed" =>
        LET want == ContractPairs(sorted_peaks)
            postings == Range(hashes) \cup {ContractPosting(sorted_peaks, e) : e \in want}
        IN  \A p \in postings :
                Count(hashes, p)
                    = Cardinality({e \in want : ContractPosting(sorted_peaks, e) = p})

\* The diamond footprint centred on a cell, inside the spectrogram.
Diamond(c) ==
    {x \in Cells : Abs(x[1] - c[1]) + Abs(x[2] - c[2]) <= peak_neighborhood_size}

\* C9: peak definition: find_peaks reports a cell iff its magnitude equals
\* the maximum over its diamond footprint, exceeds min_amplitude, and the
\* maximum filter over the is-zero mask does not select the cell (no zero
\* cell in its footprint).
C9_PeakDefinition ==
    fp_pc \in {"peaks", "hashed"} /\ spectrogram # <<>> =>
        \A c \in Cells :
            c \in Range(peaks) <=>
                /\ \A x \in Diamond(c) : spectrogram[x] <= spectrogram[c]
                /\ spectrogram[c] > min_amplitude
                /\ \A x \in Diamond(c) : spectrogram[x] # 0

\* C10 as stated: the list find_peaks returns is sorted by ascending
\* frame index, for every spectrogram.
C10_FindPeaksTimeSorted ==
    fp_pc \in {"peaks", "hashed"} /\ spectrogram # <<>> => IsTimeSorted(peaks)

\* C10 amended: find_peaks returns its peaks by frequency bin first; the
\* list the hasher walks, which generate_hashes sorts on entry, holds the
\* same peaks by ascending frame index.
C10_HasherWalksTimeSorted ==
    fp_pc = "hashed" =>
        /\ IsTimeSorted(sorted_peaks)
        /\ Len(sorted_peaks) = Len(peaks)
        /\ \A x \in Range(peaks) \cup Range(sorted_peaks) :
              Count(sorted_peaks, x) = Count(peaks, x)

\* C10 witness: find_peaks returned peaks out of time order and the hasher
\* has run on them.
C10_Witness ==
    /\ fp_pc = "hashed"
    /\ spectrogram # <<>>
    /\ ~IsTimeSorted(peaks)
    /\ hashes # <<>>

====
